---- MODULE Spec2Model ----
(***************************************************************************)
(* Model of packages/experimental-utils/src/ts-eslint/RuleTester.ts: the   *)
(* RuleTester subclass of ESLint's rule tester.  The class has two pieces  *)
(* of behaviour: its constructor, which calls the superclass constructor   *)
(* and then writes parserOptions.noWatch when parserOptions.project is     *)
(* truthy, and run, which forwards its arguments to the superclass.        *)
(*                                                                         *)
(* JavaScript values are tagged records, so that typeof, truthiness,       *)
(* optional chaining, || and the property read and write of ordinary       *)
(* objects (own and inherited properties, data and accessor properties,    *)
(* non-extensible and frozen objects) are computed as the language         *)
(* computes them.  The write on line 141 runs the caller's setter when     *)
(* noWatch is an accessor; the setters covered are the one that stores     *)
(* nothing, the one that keeps the value in a backing field of the object  *)
(* (written in strict code, where a refused store throws, or in non-strict *)
(* code, where it is silently dropped), and the one that throws.           *)
(***************************************************************************)
EXTENDS Naturals, Sequences, FiniteSets

VARIABLES
    pc,             \* position of the caller: idle, super, check, constructed, threw
    testerConfig,   \* the caller's testerConfig object (mutated in place)
    origConfig,     \* the value of testerConfig when the constructor was entered
    superSnapshot,  \* the value of testerConfig when super(...) received it
    assigned,       \* the value the constructor assigned to noWatch, if it did
    superRunCalls   \* the argument lists forwarded to super.run, in order

vars == <<pc, testerConfig, origConfig, superSnapshot, assigned, superRunCalls>>

\* Number of run(...) calls explored on one constructed tester.
MaxRuns == 1

----------------------------------------------------------------------------
\* JavaScript values

Undefined == [t |-> "undefined"]
True == [t |-> "boolean", v |-> "true"]
False == [t |-> "boolean", v |-> "false"]
Str(s) == [t |-> "string", v |-> s]
Num(s) == [t |-> "number", v |-> s]
Null == [t |-> "null"]

\* Property descriptors.  A data property has a value and may be read-only.
\* An accessor has a getter (none, one returning the constant false, or one
\* returning the backing field) and a setter (none, one that stores nothing,
\* one that assigns the backing field from strict code ("field") or from
\* non-strict code ("field_sloppy"), or one that throws).
Data(val, writable) == [kind |-> "data", value |-> val, writable |-> writable]
Accessor(get, set) == [kind |-> "accessor", get |-> get, set |-> set]
NoDescriptor == [kind |-> "none"]
Getters == {"none", "const_false", "field"}
Setters == {"none", "noop", "field", "field_sloppy", "throws"}
\* the field a field-backed accessor reads and assigns (this._nw)
BackingField == "_nw"

\* Objects carry their own properties, their prototype (Null stands for a
\* chain that defines none of the names used here) and their integrity
\* level: extensible, or the result of Object.preventExtensions/seal/freeze.
Obj(fields) ==
    [t |-> "object", props |-> [k \in DOMAIN fields |-> Data(fields[k], TRUE)],
     proto |-> Null, integrity |-> "extensible"]
Arr(items) ==
    [t |-> "object", props |-> [k \in {} |-> NoDescriptor],
     proto |-> Null, integrity |-> "extensible", items |-> items]

IntegrityLevels == {"extensible", "nonextensible", "sealed", "frozen"}
\* Object.preventExtensions / Object.seal / Object.freeze: freezing also
\* makes every own data property read-only.
Harden(o, level) ==
    [o EXCEPT !.integrity = level,
              !.props = IF level = "frozen"
                        THEN [k \in DOMAIN o.props |->
                                IF o.props[k].kind = "data"
                                THEN [o.props[k] EXCEPT !.writable = FALSE]
                                ELSE o.props[k]]
                        ELSE o.props]

\* Marks a property that an object literal does not have at all.
Absent == [t |-> "absent"]

Bool(b) == IF b THEN True ELSE False

\* typeof x (typeof null is "object")
Typeof(x) == IF x.t = "null" THEN "object" ELSE x.t

Truthy(x) ==
    CASE x.t = "undefined" -> FALSE
      [] x.t = "null" -> FALSE
      [] x.t = "boolean" -> x.v = "true"
      [] x.t = "string" -> x.v # ""
      [] x.t = "number" -> x.v \notin {"0", "-0", "NaN"}
      [] x.t = "object" -> TRUE

\* a || b
JsOr(a, b) == IF Truthy(a) THEN a ELSE b

IsObject(x) == x.t = "object"

\* The descriptor a property access finds: own first, then up the
\* prototype chain.
RECURSIVE Lookup(_, _)
Lookup(o, k) ==
    IF k \in DOMAIN o.props THEN o.props[k]
    ELSE IF o.proto.t = "null" THEN NoDescriptor
    ELSE Lookup(o.proto, k)

\* The value of a data property found by the access, undefined otherwise.
DataValue(d) == IF d.kind = "data" THEN d.value ELSE Undefined

\* o.k on a value that is neither undefined nor null: a missing property
\* reads undefined, an accessor reads what its getter returns (with this = o).
Get(o, k) ==
    IF ~IsObject(o) THEN Undefined
    ELSE LET d == Lookup(o, k)
         IN  CASE d.kind = "none" -> Undefined
               [] d.kind = "data" -> d.value
               [] d.kind = "accessor" /\ d.get = "none" -> Undefined
               [] d.kind = "accessor" /\ d.get = "const_false" -> False
               [] d.kind = "accessor" /\ d.get = "field" ->
                     DataValue(Lookup(o, BackingField))

\* o?.k
OptGet(o, k) == IF o.t \in {"undefined", "null"} THEN Undefined ELSE Get(o, k)

\* Whether o.k = v on a data property or a missing one throws in strict
\* code: a read-only property (own or inherited) refuses the write, and a
\* property that is not yet an own one needs an extensible object.
DataWriteThrows(o, k) ==
    LET d == Lookup(o, k)
    IN  IF d.kind = "data" /\ ~d.writable THEN TRUE
        ELSE IF k \in DOMAIN o.props THEN FALSE
        ELSE o.integrity # "extensible"

\* The object after o.k = v stored an own data property.
DataWrite(o, k, val) ==
    [o EXCEPT !.props = [x \in (DOMAIN o.props) \cup {k} |->
                            IF x # k THEN o.props[x]
                            ELSE IF k \in DOMAIN o.props
                                 THEN [o.props[k] EXCEPT !.value = val]
                                 ELSE Data(val, TRUE)]]

\* Whether o.k = v completes in strict code (a class body) instead of
\* throwing.  The store a setter makes into its backing field throws when
\* refused only if the setter itself is strict code.
CanWrite(o, k) ==
    /\ IsObject(o)
    /\ LET d == Lookup(o, k)
       IN  IF d.kind = "accessor"
           THEN CASE d.set \in {"none", "throws"} -> FALSE
                  [] d.set \in {"noop", "field_sloppy"} -> TRUE
                  [] d.set = "field" -> ~DataWriteThrows(o, BackingField)
           ELSE ~DataWriteThrows(o, k)

\* The object after o.k = v: an accessor runs its setter with this = o,
\* anything else stores an own data property; a refused store leaves the
\* object as it was.
Put(o, k, val) ==
    LET d == Lookup(o, k)
        target == IF d.kind = "accessor" THEN BackingField ELSE k
    IN  IF d.kind = "accessor" /\ d.set \notin {"field", "field_sloppy"} THEN o
        ELSE IF DataWriteThrows(o, target) THEN o
        ELSE DataWrite(o, target, val)

\* The object with own property k described by d, the rest as it was.
WithProp(o, k, d) ==
    [o EXCEPT !.props = [x \in (DOMAIN o.props) \cup {k} |->
                            IF x = k THEN d ELSE o.props[x]]]

\* An object literal: the properties given as Absent are left out.
Literal(g) == Obj([k \in {x \in DOMAIN g : g[x] # Absent} |-> g[k]])

----------------------------------------------------------------------------
\* The configurations a caller may pass (RuleTesterConfig, seen at run time)

ParserValues == {Str("@typescript-eslint/parser"), Str("espree")}
ProjectValues == {Absent, Undefined, Null, Str(""), Str("./tsconfig.json"),
                  Arr(<<"./tsconfig.json">>), Num("NaN"), Num("1")}
NoWatchValues == {Undefined, Null, True, False, Str("yes")}
EcmaVersionValues == {Absent, Num("2020")}
BackingValues == {Absent, False}

\* How noWatch may be defined: a data property, read-only or not, or an
\* accessor.
NoWatchDescriptors ==
    { Data(n, w) : n \in NoWatchValues, w \in BOOLEAN }
    \cup { Accessor(g, s) : g \in Getters, s \in Setters }

\* parserOptions without noWatch, with noWatch as an own property, and with
\* noWatch inherited from the prototype.
PlainOptions ==
    { Literal([project |-> p, ecmaVersion |-> e, _nw |-> b]) :
        p \in ProjectValues, e \in EcmaVersionValues, b \in BackingValues }

ParserOptionsValues ==
    { Harden(o, i) :
        o \in PlainOptions
              \cup { WithProp(po, "noWatch", d) :
                        po \in PlainOptions, d \in NoWatchDescriptors }
              \cup { [po EXCEPT !.proto = WithProp(Obj(<<>>), "noWatch", d)] :
                        po \in PlainOptions, d \in NoWatchDescriptors },
        i \in IntegrityLevels }
    \cup {Arr(<<>>)}

\* undefined, null, object literals, and objects that inherit
\* parserOptions from their prototype.
RuleTesterConfig ==
    {Undefined, Null} \cup
    { Literal([parser |-> p, parserOptions |-> po]) :
        p \in ParserValues, po \in {Absent} \cup ParserOptionsValues } \cup
    { [Obj([parser |-> Str("espree")]) EXCEPT !.proto = Obj([parserOptions |-> po])] :
        po \in ParserOptionsValues }

RuleNames == {"no-foo", "no-bar"}
RunTests == { [valid |-> <<"const x = 1;">>, invalid |-> <<>>],
              [valid |-> <<>>,
               invalid |-> << [code |-> "foo()",
                               errors |-> << [messageId |-> "unexpected"] >>] >>] }

----------------------------------------------------------------------------
\* The constructor, line by line

\* The object o after the object held in its data property k, own or
\* inherited, was changed in place to val.
RECURSIVE WithHeld(_, _, _)
WithHeld(o, k, val) ==
    IF k \in DOMAIN o.props
    THEN IF o.props[k].kind = "data"
         THEN [o EXCEPT !.props[k] = [o.props[k] EXCEPT !.value = val]]
         ELSE o
    ELSE IF o.proto.t = "null" THEN o
    ELSE [o EXCEPT !.proto = WithHeld(o.proto, k, val)]

\* The caller's object after its parserOptions object was changed in place.
WithOptions(cfg, po) == WithHeld(cfg, "parserOptions", po)

\* super(testerConfig): the argument the superclass constructor receives.
SuperArgNormalizedFirst(cfg) ==
    IF Truthy(OptGet(OptGet(cfg, "parserOptions"), "project"))
    THEN WithOptions(cfg, WithProp(Get(cfg, "parserOptions"), "noWatch",
                                   Data(True, TRUE)))
    ELSE cfg
SuperArg(cfg) == cfg

\* testerConfig?.parserOptions?.project
ProjectOf(cfg) == OptGet(OptGet(cfg, "parserOptions"), "project")

\* typeof testerConfig.parserOptions.noWatch === 'boolean' || true
NoWatchKeepBoolean(cfg) ==
    LET nw == Get(Get(cfg, "parserOptions"), "noWatch")
    IN  IF Typeof(nw) = "boolean" THEN nw ELSE True
NoWatchValue(cfg) ==
    LET nw == Get(Get(cfg, "parserOptions"), "noWatch")
    IN  JsOr(Bool(Typeof(nw) = "boolean"), True)

\* testerConfig.parserOptions.noWatch = <value>
AssignReplacingOptions(cfg, val) ==
    WithOptions(cfg, Harden(Obj([noWatch |-> val]),
                            Get(cfg, "parserOptions").integrity))
AssignNoWatch(cfg, val) ==
    WithOptions(cfg, Put(Get(cfg, "parserOptions"), "noWatch", val))

\* The member write throws a TypeError unless both objects exist and the
\* assignment of noWatch on parserOptions completes.
CanAssignNoWatch(cfg) ==
    /\ IsObject(cfg)
    /\ CanWrite(Get(cfg, "parserOptions"), "noWatch")

\* Nothing was assigned (yet).
Unassigned == [t |-> "unassigned"]

----------------------------------------------------------------------------
Init ==
    /\ pc = "idle"
    /\ testerConfig = Undefined
    /\ origConfig = Undefined
    /\ superSnapshot = Undefined
    /\ assigned = Unassigned
    /\ superRunCalls = <<>>

\* new RuleTester(cfg): the constructor is entered.
New ==
    /\ pc = "idle"
    /\ \E cfg \in RuleTesterConfig :
          /\ testerConfig' = cfg
          /\ origConfig' = cfg
    /\ pc' = "super"
    /\ UNCHANGED <<superSnapshot, assigned, superRunCalls>>

\* super(testerConfig)
SuperCall ==
    /\ pc = "super"
    /\ superSnapshot' = SuperArg(testerConfig)
    /\ pc' = "check"
    /\ UNCHANGED <<testerConfig, origConfig, assigned, superRunCalls>>

\* if (testerConfig?.parserOptions?.project) { ...noWatch = ... }: the value
\* is computed and assigned; the constructor returns, or the assignment
\* throws.
ForceNoWatch ==
    /\ pc = "check"
    /\ Truthy(ProjectOf(testerConfig))
    /\ assigned' = NoWatchValue(testerConfig)
    /\ IF CanAssignNoWatch(testerConfig)
       THEN /\ testerConfig' = AssignNoWatch(testerConfig, NoWatchValue(testerConfig))
            /\ pc' = "constructed"
       ELSE /\ testerConfig' = testerConfig
            /\ pc' = "threw"
    /\ UNCHANGED <<origConfig, superSnapshot, superRunCalls>>

\* the condition is falsy: the constructor returns
SkipNoWatch ==
    /\ pc = "check"
    /\ ~Truthy(ProjectOf(testerConfig))
    /\ pc' = "constructed"
    /\ UNCHANGED <<testerConfig, origConfig, superSnapshot, assigned, superRunCalls>>

\* run(ruleName, rule, tests) { super.run(ruleName, rule, tests) }
Run ==
    /\ pc = "constructed"
    /\ Len(superRunCalls) < MaxRuns
    /\ \E ruleName \in RuleNames, tests \in RunTests :
          superRunCalls' = Append(superRunCalls,
                                  [ruleName |-> ruleName, rule |-> ruleName, tests |-> tests])
    /\ UNCHANGED <<pc, testerConfig, origConfig, superSnapshot, assigned>>

Next == New \/ SuperCall \/ ForceNoWatch \/ SkipNoWatch \/ Run

Spec == Init /\ [][Next]_vars

----------------------------------------------------------------------------
\* Shorthands for the properties

OrigOptions == OptGet(origConfig, "parserOptions")
OrigProject == OptGet(OrigOptions, "project")
OrigNoWatch == OptGet(OrigOptions, "noWatch")
NowOptions == OptGet(testerConfig, "parserOptions")
NowNoWatch == OptGet(NowOptions, "noWatch")
SnapshotNoWatch == OptGet(OptGet(superSnapshot, "parserOptions"), "noWatch")
Returned == pc = "constructed"

\* What the access to noWatch finds on parserOptions on entry: none, data
\* or accessor (own or inherited).
OrigNoWatchKind ==
    IF IsObject(OrigOptions) THEN Lookup(OrigOptions, "noWatch").kind ELSE "none"

\* C1 as stated: after the constructor returns for a configuration whose
\* parserOptions.project is truthy, parserOptions.noWatch is exactly true,
\* whatever it was before.
C1_Original ==
    (Returned /\ Truthy(OrigProject)) => NowNoWatch = True

\* C1, amended: for a configuration whose parserOptions.project is truthy
\* the constructor assigns exactly true to parserOptions.noWatch, whatever
\* noWatch was before (absent, undefined, null, true, explicit false, or a
\* non-boolean); after the constructor returns noWatch is exactly true when
\* noWatch is a data property or absent, own or inherited (no accessor takes
\* the assignment).
C1_NoWatchForcedTrue ==
    /\ (pc \in {"constructed", "threw"} /\ Truthy(OrigProject)) => assigned = True
    /\ (Returned /\ Truthy(OrigProject) /\ OrigNoWatchKind \in {"none", "data"})
          => NowNoWatch = True

C1_Witness ==
    /\ Returned
    /\ Truthy(OrigProject)
    /\ OrigNoWatchKind = "data"
    /\ OrigNoWatch = False
    /\ assigned = True
    /\ NowNoWatch = True

\* C9: the superclass constructor receives the configuration before noWatch
\* is written: what it received is the caller's original value, so when the
\* constructor goes on to change noWatch, the value the superclass was given
\* (and any copy it took at construction) still has the original noWatch,
\* not the forced true; only the caller's own object shows it.
C9_SuperBeforeWrite ==
    /\ pc \in {"check", "constructed", "threw"} => superSnapshot = origConfig
    /\ (Returned /\ Truthy(OrigProject) /\ OrigNoWatch # True) =>
          /\ SnapshotNoWatch = OrigNoWatch
          /\ SnapshotNoWatch # True

C9_Witness ==
    /\ Returned
    /\ Truthy(OrigProject)
    /\ OrigNoWatch = False
    /\ NowNoWatch = True
    /\ SnapshotNoWatch = False

\* Everything of the configuration except parserOptions.noWatch is as it
\* was on entry: the top-level object (but for the parserOptions object it
\* holds or inherits), and of parserOptions the prototype, the integrity
\* level and every property other than noWatch; no property other than
\* noWatch has appeared or disappeared, and noWatch has kept its kind.
OnlyNoWatchChanged ==
    /\ DOMAIN testerConfig.props = DOMAIN origConfig.props
    /\ testerConfig.integrity = origConfig.integrity
    /\ "parserOptions" \in DOMAIN origConfig.props
          => testerConfig.proto = origConfig.proto
    /\ \A k \in DOMAIN origConfig.props :
          k # "parserOptions" => testerConfig.props[k] = origConfig.props[k]
    /\ testerConfig = WithOptions(origConfig, NowOptions)
    /\ NowOptions.integrity = OrigOptions.integrity
    /\ NowOptions.proto = OrigOptions.proto
    /\ (DOMAIN NowOptions.props) \ {"noWatch"} = (DOMAIN OrigOptions.props) \ {"noWatch"}
    /\ \A k \in DOMAIN OrigOptions.props :
          IF k = "noWatch"
          THEN NowOptions.props[k].kind = OrigOptions.props[k].kind
          ELSE NowOptions.props[k] = OrigOptions.props[k]

\* C10 as stated: the constructor changes nothing except
\* parserOptions.noWatch; without a truthy project it completes without
\* error and leaves the configuration unchanged, and with a truthy project
\* every field other than noWatch keeps its value.
C10_Original ==
    /\ pc = "threw" => (Truthy(OrigProject) /\ testerConfig = origConfig)
    /\ (Returned /\ ~Truthy(OrigProject)) => testerConfig = origConfig
    /\ (Returned /\ Truthy(OrigProject)) => OnlyNoWatchChanged

\* C10, amended: with testerConfig undefined (or null), without
\* parserOptions or with a falsy or absent project the constructor completes
\* without error and leaves the configuration as it was; with a truthy
\* project and noWatch a data property or absent, own or inherited (no
\* accessor takes the assignment), every top-level field other than
\* parserOptions and every parserOptions field other than noWatch keeps its
\* value and no field other than noWatch appears or disappears; and when
\* the assignment throws, nothing has changed at all.
C10_Frame ==
    /\ pc = "threw" => (Truthy(OrigProject) /\ testerConfig = origConfig)
    /\ (Returned /\ ~Truthy(OrigProject)) => testerConfig = origConfig
    /\ (Returned /\ Truthy(OrigProject) /\ OrigNoWatchKind \in {"none", "data"})
          => OnlyNoWatchChanged

C10_Witness ==
    /\ Returned
    /\ Truthy(OrigProject)
    /\ OrigNoWatchKind = "none"
    /\ Get(OrigOptions, "ecmaVersion") = Num("2020")
    /\ Get(NowOptions, "ecmaVersion") = Num("2020")
    /\ OrigNoWatch = Undefined
    /\ NowNoWatch = True
    /\ Get(testerConfig, "parser") = Str("espree")

====
